---- MODULE Spec2Model ----
(***************************************************************************)
(* Hyperset Pages Service (src/Pages-Service/main.py).                     *)
(*                                                                         *)
(* One FastAPI process: the event-loop thread ("main") runs the startup    *)
(* hook (_scan_pages, _start_watcher) and afterwards the request handlers  *)
(* (list_pages, serve_page, the routes mounted from the pages' backend.py);*)
(* the watchdog observer thread ("watcher") dispatches filesystem events   *)
(* to _PagesEventHandler, one at a time.  The pages root is changed by the *)
(* environment (the operator copying, editing and removing bundles).      *)
(***************************************************************************)
EXTENDS Integers, Sequences, FiniteSets, TLC

(* ------------------------------ bounds -------------------------------- *)

\* Number of changes the environment makes to the pages root in one run.
MaxFsOps == 1

\* Number of module objects created in one run of the sequential
\* specification SeqSpec.
MaxModules == 3

(* ------------------------------ names --------------------------------- *)

\* Directory names that can appear directly under the pages root.
Names == {".a", "a", "b"}

\* A name as the sequence of its code points (what str comparison and
\* str.startswith read).
CodePoints(n) ==
    CASE n = ".a" -> <<46, 97>>
      [] n = "a"  -> <<97>>
      [] n = "b"  -> <<98>>

\* Code point of '.'.
Dot == 46

\* name.startswith(".")
StartsWithDot(n) == Len(CodePoints(n)) > 0 /\ CodePoints(n)[1] = Dot

\* Python's str.__lt__: lexicographic on code points, a proper prefix first.
RECURSIVE SeqLess(_, _)
SeqLess(s, t) ==
    IF t = <<>> THEN FALSE
    ELSE IF s = <<>> THEN TRUE
    ELSE IF s[1] # t[1] THEN s[1] < t[1]
    ELSE SeqLess(Tail(s), Tail(t))

StrLess(m, n) == SeqLess(CodePoints(m), CodePoints(n))

\* sorted(xs) for a sequence of names: insertion sort with StrLess.
RECURSIVE InsertSorted(_, _)
InsertSorted(n, s) ==
    IF s = <<>> THEN <<n>>
    ELSE IF StrLess(s[1], n) THEN <<s[1]>> \o InsertSorted(n, Tail(s))
    ELSE <<n>> \o s

RECURSIVE SortedNames(_)
SortedNames(s) ==
    IF s = <<>> THEN <<>> ELSE InsertSorted(s[1], SortedNames(Tail(s)))

RECURSIVE SetToSeq(_)
SetToSeq(S) ==
    IF S = {} THEN <<>>
    ELSE LET x == CHOOSE y \in S : TRUE IN <<x>> \o SetToSeq(S \ {x})

Range(s) == {s[i] : i \in DOMAIN s}

(* --------------------------- the filesystem --------------------------- *)

PAGES_DIR == <<"pages">>

\* What a backend.py can contain, by what loading it does; "none": no file.
\*   valid     : defines router = APIRouter() with an operation
\*   raises    : its top-level code raises an Exception
\*   norouter  : executes, defines no `router` (or router = None)
\*   badrouter : executes, `router` is an object include_router rejects
BackendContents == {"valid", "raises", "norouter", "badrouter"}
BackendKinds == {"none"} \cup BackendContents

BodyRaises(c) == c = "raises"
ExposesRouter(c) == c \in {"valid", "badrouter"}
RouterMountable(c) == c = "valid"

Absent == [kind |-> "absent", index |-> FALSE, backend |-> "none"]
PlainFile == [kind |-> "file", index |-> FALSE, backend |-> "none"]
Bundle(idx, bk) == [kind |-> "dir", index |-> idx, backend |-> bk]

Entries == {Absent, PlainFile} \cup {Bundle(i, b) : i \in BOOLEAN, b \in BackendKinds}

\* What can be on disk under each name when the process starts.
InitEntries(n) ==
    CASE n = ".a" -> {Absent, Bundle(TRUE, "none")}
      [] n = "a"  -> {Absent, Bundle(TRUE, "none"), Bundle(TRUE, "valid"), Bundle(TRUE, "raises")}
      [] n = "b"  -> {Absent, Bundle(TRUE, "valid")}

VARIABLES
    rootExists,   \* PAGES_DIR is a directory
    fs,           \* name -> entry directly under PAGES_DIR
    fsOps,        \* changes the environment has made so far
    queue,        \* events delivered by the observer's emitter, oldest first
    registry,     \* _registry: a dict, as its items in insertion order
    sys_modules,  \* the pages' keys of sys.modules: key -> module instance
    routes,       \* app.router.routes added by include_router, in order
    nextModule,   \* identity of the next module object created
    lock,         \* _registry_lock: "free" or the thread holding it
    pc,           \* thread -> position in the code
    local,        \* thread -> locals of the Loader / Unloader / event handler
    scanTodo,     \* entries _scan_pages still has to visit
    req,          \* the request the event loop is handling
    resp,         \* the response just produced
    tools,        \* the REST client: a Tools instance (tokens, credentials)
    call          \* the client's _make_request call in progress

vars == <<rootExists, fs, fsOps, queue, registry, sys_modules, routes,
          nextModule, lock, pc, local, scanTodo, req, resp, tools, call>>

Threads == {"main", "watcher"}

NoLocal == [name |-> "", event |-> "", has_backend |-> FALSE, content |-> "none"]
NoReq == [kind |-> "none", page |-> ""]
NoResp == [kind |-> "none"]

\* Tools.__init__: no access token, no CSRF token.  The service never
\* touches the client, which runs in another process.
NoTools == [access_token |-> "None", csrf_token |-> "None", credentials |-> FALSE]
NoCall == [pc |-> "idle", method |-> "none", phase |-> "none", sent |-> 0,
           logins |-> 0, relogins |-> 0, reauths |-> 0, status |-> 0,
           result |-> "none"]


(* ------------------------- dict, keys, routes ------------------------- *)

\* A Python dict as the sequence of its items, in insertion order.
DictKeys(d) == [i \in DOMAIN d |-> d[i].name]
DictHas(d, k) == \E i \in DOMAIN d : d[i].name = k
DictGet(d, k) == d[CHOOSE i \in DOMAIN d : d[i].name = k].info
\* DictSet as an insert: the item is added whether or not the key is there.
DictSetInsert(d, k, v) == Append(d, [name |-> k, info |-> v])

\* d[k] = v : an existing key keeps its place, a new key goes last.
DictSet(d, k, v) ==
    IF DictHas(d, k)
    THEN [i \in DOMAIN d |-> IF d[i].name = k THEN [name |-> k, info |-> v] ELSE d[i]]
    ELSE Append(d, [name |-> k, info |-> v])
\* DictPop as d.popitem(): the last item goes, whatever the key.
DictPopItem(d, k) == IF d = <<>> THEN d ELSE SubSeq(d, 1, Len(d) - 1)

\* d.pop(k, None)
DictPop(d, k) == SelectSeq(d, LAMBDA it : it.name # k)

\* ModKey with one key shared by the backends of all pages.
ModKeyShared(name) == <<"pages", "backend">>

\* f"pages.{name}.backend"
ModKey(name) == <<"pages", name, "backend">>

\* sys.modules[key] = module
ModulesSet(m, key, module) == [k \in DOMAIN m \cup {key} |-> IF k = key THEN module ELSE m[k]]
\* ModulesPop that leaves the module in the table.
ModulesPopKeeps(m, key) == m

\* sys.modules.pop(key, None)
ModulesPop(m, key) == [k \in DOMAIN m \ {key} |-> m[k]]

\* f"/{name}/api": the prefix under which a page's router is mounted.
ApiPrefix(name) == <<name, "api">>

\* app.include_router(router, prefix=...): the router's operations are
\* appended to the application's route list, bound to the module object
\* that defined them.
IncludeRouter(rs, name, module) == Append(rs, [prefix |-> ApiPrefix(name), module |-> module])

\* The first route matching a path under /{name}/api, as the router's
\* in-order matching finds it; 0 when no route matches.
MatchRoute(rs, name) ==
    IF \E i \in DOMAIN rs : rs[i].prefix = ApiPrefix(name)
    THEN CHOOSE i \in DOMAIN rs :
            /\ rs[i].prefix = ApiPrefix(name)
            /\ \A j \in DOMAIN rs : rs[j].prefix = ApiPrefix(name) => i <= j
    ELSE 0

\* LoadOutcome without the failure of include_router: whatever the module
\* calls `router` counts as mounted.
LoadOutcomeAnyRouter(c) ==
    IF c = "none" \/ BodyRaises(c) THEN "raised"
    ELSE IF ~ExposesRouter(c) THEN "norouter"
    ELSE "mounted"

\* What the try block of _load_page does with a backend.py of content c
\* (c = "none": the file is gone when exec_module reads it).
LoadOutcome(c) ==
    IF c = "none" \/ BodyRaises(c) THEN "raised"
    ELSE IF ~ExposesRouter(c) THEN "norouter"
    ELSE IF ~RouterMountable(c) THEN "raised"
    ELSE "mounted"

\* ListPages without sorted(): the items in the dict's own order.
ListPagesUnsorted(reg) ==
    [i \in DOMAIN reg |-> [name |-> reg[i].name, has_backend |-> reg[i].info.has_backend]]

\* sorted(_registry.items()) rendered as the "pages" list.
ListPages(reg) ==
    LET ks == SortedNames(DictKeys(reg))
    IN [i \in DOMAIN ks |-> [name |-> ks[i], has_backend |-> DictGet(reg, ks[i]).has_backend]]

(* ------------------------------- paths -------------------------------- *)

\* Path.relative_to(PAGES_DIR): ValueError unless the path is under PAGES_DIR.
IsUnder(p, root) == Len(p) >= Len(root) /\ SubSeq(p, 1, Len(root)) = root
RelativeParts(p) == SubSeq(p, Len(PAGES_DIR) + 1, Len(p))

\* _page_name_from_path: the first component under PAGES_DIR, or "" (None).
PageNameFromPath(p) ==
    IF ~IsUnder(p, PAGES_DIR) THEN ""
    ELSE IF RelativeParts(p) = <<>> THEN ""
    ELSE RelativeParts(p)[1]

PageDir(n) == PAGES_DIR \o <<n>>
IndexPath(n) == PAGES_DIR \o <<n, "index.html">>
BackendPath(n) == PAGES_DIR \o <<n, "backend.py">>

IsDir(n) == n \in Names /\ rootExists /\ fs[n].kind = "dir"
Exists(n) == n \in Names /\ rootExists /\ fs[n].kind # "absent"
IndexIsFile(n) == IsDir(n) /\ fs[n].index
BackendIsFile(n) == IsDir(n) /\ fs[n].backend # "none"

Event(k, p) == [kind |-> k, path |-> p]

(* -------------------------------- Init -------------------------------- *)

Init ==
    /\ rootExists \in BOOLEAN
    /\ fs \in [Names -> Entries]
    /\ \A n \in Names : fs[n] \in InitEntries(n)
    /\ ~rootExists => \A n \in Names : fs[n] = Absent
    /\ fsOps = 0
    /\ queue = <<>>
    /\ registry = <<>>
    /\ sys_modules = <<>>
    /\ routes = <<>>
    /\ nextModule = 1
    /\ lock = "free"
    /\ pc = [t \in Threads |-> IF t = "main" THEN "scan_start" ELSE "off"]
    /\ local = [t \in Threads |-> NoLocal]
    /\ scanTodo = <<>>
    /\ req = NoReq
    /\ resp = NoResp
    /\ tools = NoTools
    /\ call = NoCall


(* ------------------------------ Loader -------------------------------- *)

\* The positions of _load_page.
LoadPcs == {"load_index", "load_backend", "load_exec", "load_lock", "load_commit"}

\* The positions of _unload_page.
UnloadPcs == {"unload_lock", "unload_pop", "unload_module"}

\* Where a thread continues after _load_page returns: the scan loop on the
\* event-loop thread, the event queue on the observer thread.
ReturnPc(t) == IF t = "main" THEN "scan_loop" ELSE "idle"

Goto(t, label) == pc' = [pc EXCEPT ![t] = label]
SetLocal(t, l) == local' = [local EXCEPT ![t] = l]

\* LoadIndex without the test of the document: the Loader always goes on.
LoadIndexNoTest(t) ==
    /\ pc[t] = "load_index"
    /\ Goto(t, "load_backend")
    /\ UNCHANGED <<tools, call, rootExists, fs, fsOps, queue, registry, sys_modules, routes,
                   nextModule, lock, local, scanTodo, req, resp>>

\* _load_page, line 43: index.is_file()
LoadIndex(t) ==
    /\ pc[t] = "load_index"
    /\ IF IndexIsFile(local[t].name)
       THEN Goto(t, "load_backend") /\ UNCHANGED local
       ELSE Goto(t, ReturnPc(t)) /\ SetLocal(t, NoLocal)
    /\ UNCHANGED <<tools, call, rootExists, fs, fsOps, queue, registry, sys_modules, routes,
                   nextModule, lock, scanTodo, req, resp>>

\* _load_page, lines 47-49: has_backend = False; backend_path.is_file()
LoadBackend(t) ==
    /\ pc[t] = "load_backend"
    /\ SetLocal(t, [local[t] EXCEPT !.has_backend = FALSE, !.content = "none"])
    /\ IF BackendIsFile(local[t].name)
       THEN Goto(t, "load_exec")
       ELSE Goto(t, "load_lock")
    /\ UNCHANGED <<tools, call, rootExists, fs, fsOps, queue, registry, sys_modules, routes,
                   nextModule, lock, scanTodo, req, resp>>

\* LoadExec without the except clause: what the try block raises leaves
\* _load_page, and nothing is committed.
LoadExecPropagates(t) ==
    /\ pc[t] = "load_exec"
    /\ LET name == local[t].name
           content == IF BackendIsFile(name) THEN fs[name].backend ELSE "none"
           outcome == LoadOutcome(content)
       IN /\ sys_modules' = ModulesSet(sys_modules, ModKey(name), nextModule)
          /\ nextModule' = nextModule + 1
          /\ routes' = IF outcome = "mounted"
                       THEN IncludeRouter(routes, name, nextModule)
                       ELSE routes
          /\ IF outcome = "raised"
             THEN Goto(t, ReturnPc(t)) /\ SetLocal(t, NoLocal)
             ELSE /\ Goto(t, "load_lock")
                  /\ SetLocal(t, [local[t] EXCEPT !.has_backend = (outcome = "mounted"),
                                                  !.content = content])
    /\ UNCHANGED <<tools, call, rootExists, fs, fsOps, queue, registry, lock, scanTodo, req, resp>>

\* LoadExec that executes the handler file again in the module object the
\* page's key already holds, when there is one.
LoadExecReusesModule(t) ==
    /\ pc[t] = "load_exec"
    /\ LET name == local[t].name
           content == IF BackendIsFile(name) THEN fs[name].backend ELSE "none"
           outcome == LoadOutcome(content)
           module == IF ModKey(name) \in DOMAIN sys_modules
                     THEN sys_modules[ModKey(name)]
                     ELSE nextModule
       IN /\ sys_modules' = ModulesSet(sys_modules, ModKey(name), module)
          /\ nextModule' = nextModule + 1
          /\ routes' = IF outcome = "mounted"
                       THEN IncludeRouter(routes, name, module)
                       ELSE routes
          /\ SetLocal(t, [local[t] EXCEPT !.has_backend = (outcome = "mounted"),
                                          !.content = content])
    /\ Goto(t, "load_lock")
    /\ UNCHANGED <<tools, call, rootExists, fs, fsOps, queue, registry, lock, scanTodo, req, resp>>

\* _load_page, lines 50-68: a new module object is stored under the page's
\* key, its body is executed, its router is mounted; any Exception is
\* caught and leaves has_backend False.
LoadExec(t) ==
    /\ pc[t] = "load_exec"
    /\ LET name == local[t].name
           content == IF BackendIsFile(name) THEN fs[name].backend ELSE "none"
           outcome == LoadOutcome(content)
       IN /\ sys_modules' = ModulesSet(sys_modules, ModKey(name), nextModule)
          /\ nextModule' = nextModule + 1
          /\ routes' = IF outcome = "mounted"
                       THEN IncludeRouter(routes, name, nextModule)
                       ELSE routes
          /\ SetLocal(t, [local[t] EXCEPT !.has_backend = (outcome = "mounted"),
                                          !.content = content])
    /\ Goto(t, "load_lock")
    /\ UNCHANGED <<tools, call, rootExists, fs, fsOps, queue, registry, lock, scanTodo, req, resp>>

\* LoadLock without the with statement: the commit runs without the lock.
LoadLockNoAcquire(t) ==
    /\ pc[t] = "load_lock"
    /\ Goto(t, "load_commit")
    /\ UNCHANGED <<tools, call, rootExists, fs, fsOps, queue, registry, sys_modules, routes,
                   nextModule, lock, local, scanTodo, req, resp>>

\* _load_page, line 70: with _registry_lock (acquire)
LoadLock(t) ==
    /\ pc[t] = "load_lock"
    /\ lock = "free"
    /\ lock' = t
    /\ Goto(t, "load_commit")
    /\ UNCHANGED <<tools, call, rootExists, fs, fsOps, queue, registry, sys_modules, routes,
                   nextModule, local, scanTodo, req, resp>>

\* LoadCommit that returns without releasing the lock.
LoadCommitKeepsLock(t) ==
    /\ pc[t] = "load_commit"
    /\ registry' = DictSet(registry, local[t].name, [has_backend |-> local[t].has_backend])
    /\ Goto(t, ReturnPc(t))
    /\ SetLocal(t, NoLocal)
    /\ UNCHANGED <<tools, call, rootExists, fs, fsOps, queue, sys_modules, routes,
                   nextModule, lock, scanTodo, req, resp>>

\* _load_page, lines 71-73: _registry[name] = {...}; the lock is released
LoadCommit(t) ==
    /\ pc[t] = "load_commit"
    /\ registry' = DictSet(registry, local[t].name, [has_backend |-> local[t].has_backend])
    /\ lock' = "free"
    /\ Goto(t, ReturnPc(t))
    /\ SetLocal(t, NoLocal)
    /\ UNCHANGED <<tools, call, rootExists, fs, fsOps, queue, sys_modules, routes,
                   nextModule, scanTodo, req, resp>>

(* ----------------------------- Unloader ------------------------------- *)

\* _unload_page, line 78: with _registry_lock (acquire)
UnloadLock(t) ==
    /\ pc[t] = "unload_lock"
    /\ lock = "free"
    /\ lock' = t
    /\ Goto(t, "unload_pop")
    /\ UNCHANGED <<tools, call, rootExists, fs, fsOps, queue, registry, sys_modules, routes,
                   nextModule, local, scanTodo, req, resp>>

\* UnloadPop that leaves the entry in the registry.
UnloadPopKeepsEntry(t) ==
    /\ pc[t] = "unload_pop"
    /\ lock' = "free"
    /\ Goto(t, "unload_module")
    /\ UNCHANGED <<tools, call, rootExists, fs, fsOps, queue, registry, sys_modules, routes,
                   nextModule, local, scanTodo, req, resp>>

\* _unload_page, line 79: _registry.pop(name, None); the lock is released
UnloadPop(t) ==
    /\ pc[t] = "unload_pop"
    /\ registry' = DictPop(registry, local[t].name)
    /\ lock' = "free"
    /\ Goto(t, "unload_module")
    /\ UNCHANGED <<tools, call, rootExists, fs, fsOps, queue, sys_modules, routes,
                   nextModule, local, scanTodo, req, resp>>

\* UnloadModule after which on_modified returns without calling _load_page.
UnloadModuleNoReload(t) ==
    /\ pc[t] = "unload_module"
    /\ sys_modules' = ModulesPop(sys_modules, ModKey(local[t].name))
    /\ Goto(t, ReturnPc(t))
    /\ SetLocal(t, NoLocal)
    /\ UNCHANGED <<tools, call, rootExists, fs, fsOps, queue, registry, routes,
                   nextModule, lock, scanTodo, req, resp>>

\* _unload_page, lines 82-88: sys.modules.pop(mod_key, None); the routes
\* stay.  on_modified goes on to _load_page, on_deleted returns.
UnloadModule(t) ==
    /\ pc[t] = "unload_module"
    /\ sys_modules' = ModulesPop(sys_modules, ModKey(local[t].name))
    /\ IF local[t].event = "modified"
       THEN Goto(t, "load_index") /\ UNCHANGED local
       ELSE Goto(t, ReturnPc(t)) /\ SetLocal(t, NoLocal)
    /\ UNCHANGED <<tools, call, rootExists, fs, fsOps, queue, registry, routes,
                   nextModule, lock, scanTodo, req, resp>>

(* ------------------------- startup: the scan -------------------------- *)

\* ScanStart in a startup hook that calls _start_watcher() before
\* _scan_pages(): the observer runs while the scan does.
ScanStartWatcherFirst ==
    /\ pc["main"] = "scan_start"
    /\ IF ~rootExists
       THEN /\ pc' = [pc EXCEPT !["main"] = "start_watcher", !["watcher"] = "idle"]
            /\ UNCHANGED scanTodo
       ELSE /\ scanTodo' = SortedNames(SetToSeq({n \in Names : Exists(n)}))
            /\ pc' = [pc EXCEPT !["main"] = "scan_loop", !["watcher"] = "idle"]
    /\ UNCHANGED <<tools, call, rootExists, fs, fsOps, queue, registry, sys_modules, routes,
                   nextModule, lock, local, req, resp>>

\* _scan_pages, lines 93-96: the root is listed once, sorted.
ScanStart ==
    /\ pc["main"] = "scan_start"
    /\ IF ~rootExists
       THEN Goto("main", "start_watcher") /\ UNCHANGED scanTodo
       ELSE /\ scanTodo' = SortedNames(SetToSeq({n \in Names : Exists(n)}))
            /\ Goto("main", "scan_loop")
    /\ UNCHANGED <<tools, call, rootExists, fs, fsOps, queue, registry, sys_modules, routes,
                   nextModule, lock, local, req, resp>>

\* ScanLoop without the test of the name: every directory is loaded.
ScanLoopNoDotFilter ==
    /\ pc["main"] = "scan_loop"
    /\ IF scanTodo = <<>>
       THEN Goto("main", "start_watcher") /\ UNCHANGED <<scanTodo, local>>
       ELSE LET entry == Head(scanTodo)
            IN /\ scanTodo' = Tail(scanTodo)
               /\ IF IsDir(entry)
                  THEN /\ Goto("main", "load_index")
                       /\ SetLocal("main", [NoLocal EXCEPT !.name = entry, !.event = "scan"])
                  ELSE UNCHANGED <<pc, local>>
    /\ UNCHANGED <<tools, call, rootExists, fs, fsOps, queue, registry, sys_modules, routes,
                   nextModule, lock, req, resp>>

\* _scan_pages, lines 96-98: the next entry; a directory whose name does
\* not start with "." is loaded.
ScanLoop ==
    /\ pc["main"] = "scan_loop"
    /\ IF scanTodo = <<>>
       THEN Goto("main", "start_watcher") /\ UNCHANGED <<scanTodo, local>>
       ELSE LET entry == Head(scanTodo)
            IN /\ scanTodo' = Tail(scanTodo)
               /\ IF IsDir(entry) /\ ~StartsWithDot(entry)
                  THEN /\ Goto("main", "load_index")
                       /\ SetLocal("main", [NoLocal EXCEPT !.name = entry, !.event = "scan"])
                  ELSE UNCHANGED <<pc, local>>
    /\ UNCHANGED <<tools, call, rootExists, fs, fsOps, queue, registry, sys_modules, routes,
                   nextModule, lock, req, resp>>


(* ----------------------- startup: the watcher ------------------------- *)

\* Observer.start() on PAGES_DIR: on an existing directory the observer
\* thread starts; on a missing one the inotify and Windows backends raise
\* OSError out of start(), the FSEvents backend starts.
ObserverStartOutcomes == IF rootExists THEN {"started"} ELSE {"started", "raises"}

\* _start_watcher (lines 145-150), the last call of startup (lines 179-182).
\* Nothing catches what it raises: the startup hook fails and the server
\* exits without ever serving.
StartWatcher ==
    /\ pc["main"] = "start_watcher"
    /\ \E outcome \in ObserverStartOutcomes :
          IF outcome = "started"
          THEN pc' = [pc EXCEPT !["main"] = "serving", !["watcher"] = "idle"]
          ELSE pc' = [pc EXCEPT !["main"] = "failed"]
    /\ UNCHANGED <<tools, call, rootExists, fs, fsOps, queue, registry, sys_modules, routes,
                   nextModule, lock, local, scanTodo, req, resp>>

\* startup(), lines 179-182: _scan_pages() and then _start_watcher(); the
\* server accepts requests once the hook has returned.
ScanPcs == {"scan_start", "scan_loop", "load_index", "load_backend", "load_exec",
            "load_lock", "load_commit"}
StartupPcs == ScanPcs \cup {"start_watcher"}

(* --------------------------- event handler ---------------------------- *)

ObserverRunning == pc["watcher"] # "off"

\* OnCreated without the test page_dir.is_dir().
OnCreatedNoDirTest ==
    /\ pc["watcher"] = "idle"
    /\ queue # <<>>
    /\ Head(queue).kind = "created"
    /\ queue' = Tail(queue)
    /\ LET name == PageNameFromPath(Head(queue).path)
       IN IF name # ""
          THEN /\ Goto("watcher", "load_index")
               /\ SetLocal("watcher", [NoLocal EXCEPT !.name = name, !.event = "created"])
          ELSE UNCHANGED <<pc, local>>
    /\ UNCHANGED <<tools, call, rootExists, fs, fsOps, registry, sys_modules, routes,
                   nextModule, lock, scanTodo, req, resp>>

\* OnCreated with the name test of the scan: a name that begins with "."
\* is ignored.
OnCreatedDotFilter ==
    /\ pc["watcher"] = "idle"
    /\ queue # <<>>
    /\ Head(queue).kind = "created"
    /\ queue' = Tail(queue)
    /\ LET name == PageNameFromPath(Head(queue).path)
       IN IF name # "" /\ IsDir(name) /\ ~StartsWithDot(name)
          THEN /\ Goto("watcher", "load_index")
               /\ SetLocal("watcher", [NoLocal EXCEPT !.name = name, !.event = "created"])
          ELSE UNCHANGED <<pc, local>>
    /\ UNCHANGED <<tools, call, rootExists, fs, fsOps, registry, sys_modules, routes,
                   nextModule, lock, scanTodo, req, resp>>

\* on_created, lines 115-122
OnCreated ==
    /\ pc["watcher"] = "idle"
    /\ queue # <<>>
    /\ Head(queue).kind = "created"
    /\ queue' = Tail(queue)
    /\ LET name == PageNameFromPath(Head(queue).path)
       IN IF name # "" /\ IsDir(name)
          THEN /\ Goto("watcher", "load_index")
               /\ SetLocal("watcher", [NoLocal EXCEPT !.name = name, !.event = "created"])
          ELSE UNCHANGED <<pc, local>>
    /\ UNCHANGED <<tools, call, rootExists, fs, fsOps, registry, sys_modules, routes,
                   nextModule, lock, scanTodo, req, resp>>

\* OnModified that reloads by calling _load_page alone, on top of the
\* entry that is there.
OnModifiedLoadOnly ==
    /\ pc["watcher"] = "idle"
    /\ queue # <<>>
    /\ Head(queue).kind = "modified"
    /\ queue' = Tail(queue)
    /\ LET name == PageNameFromPath(Head(queue).path)
       IN IF name # "" /\ IsDir(name) /\ IndexIsFile(name)
          THEN /\ Goto("watcher", "load_index")
               /\ SetLocal("watcher", [NoLocal EXCEPT !.name = name, !.event = "modified"])
          ELSE UNCHANGED <<pc, local>>
    /\ UNCHANGED <<tools, call, rootExists, fs, fsOps, registry, sys_modules, routes,
                   nextModule, lock, scanTodo, req, resp>>

\* OnModified called from a thread of its own per event: it starts
\* whether or not the reaction to the event before has returned.
OnModifiedConcurrent ==
    /\ pc["watcher"] \in {"idle"} \cup LoadPcs \cup UnloadPcs
    /\ queue # <<>>
    /\ Head(queue).kind = "modified"
    /\ queue' = Tail(queue)
    /\ LET name == PageNameFromPath(Head(queue).path)
       IN IF name # "" /\ IsDir(name) /\ IndexIsFile(name)
          THEN /\ Goto("watcher", "unload_lock")
               /\ SetLocal("watcher", [NoLocal EXCEPT !.name = name, !.event = "modified"])
          ELSE UNCHANGED <<pc, local>>
    /\ UNCHANGED <<tools, call, rootExists, fs, fsOps, registry, sys_modules, routes,
                   nextModule, lock, scanTodo, req, resp>>

\* on_modified, lines 124-132
OnModified ==
    /\ pc["watcher"] = "idle"
    /\ queue # <<>>
    /\ Head(queue).kind = "modified"
    /\ queue' = Tail(queue)
    /\ LET name == PageNameFromPath(Head(queue).path)
       IN IF name # "" /\ IsDir(name) /\ IndexIsFile(name)
          THEN /\ Goto("watcher", "unload_lock")
               /\ SetLocal("watcher", [NoLocal EXCEPT !.name = name, !.event = "modified"])
          ELSE UNCHANGED <<pc, local>>
    /\ UNCHANGED <<tools, call, rootExists, fs, fsOps, registry, sys_modules, routes,
                   nextModule, lock, scanTodo, req, resp>>

\* OnDeleted without the test of the directory: every deleted event under
\* a page unloads the page.
OnDeletedAlways ==
    /\ pc["watcher"] = "idle"
    /\ queue # <<>>
    /\ Head(queue).kind = "deleted"
    /\ queue' = Tail(queue)
    /\ LET name == PageNameFromPath(Head(queue).path)
       IN IF name # ""
          THEN /\ Goto("watcher", "unload_lock")
               /\ SetLocal("watcher", [NoLocal EXCEPT !.name = name, !.event = "deleted"])
          ELSE UNCHANGED <<pc, local>>
    /\ UNCHANGED <<tools, call, rootExists, fs, fsOps, registry, sys_modules, routes,
                   nextModule, lock, scanTodo, req, resp>>

\* on_deleted, lines 134-142
OnDeleted ==
    /\ pc["watcher"] = "idle"
    /\ queue # <<>>
    /\ Head(queue).kind = "deleted"
    /\ queue' = Tail(queue)
    /\ LET name == PageNameFromPath(Head(queue).path)
       IN IF name # "" /\ ~Exists(name)
          THEN /\ Goto("watcher", "unload_lock")
               /\ SetLocal("watcher", [NoLocal EXCEPT !.name = name, !.event = "deleted"])
          ELSE UNCHANGED <<pc, local>>
    /\ UNCHANGED <<tools, call, rootExists, fs, fsOps, registry, sys_modules, routes,
                   nextModule, lock, scanTodo, req, resp>>

(* -------------------------- request handlers -------------------------- *)

NotFound(page) == [kind |-> "page", page |-> page, status |-> 404, body |-> "Page not found"]

\* GET /__pages__ arrives at the serving event loop.
ListRequest ==
    /\ pc["main"] = "serving"
    /\ req' = [kind |-> "list", page |-> ""]
    /\ Goto("main", "list_lock")
    /\ UNCHANGED <<tools, call, rootExists, fs, fsOps, queue, registry, sys_modules, routes,
                   nextModule, lock, local, scanTodo, resp>>

\* GET /{page_name} arrives at the serving event loop.
PageRequest ==
    /\ pc["main"] = "serving"
    /\ \E p \in Names : req' = [kind |-> "page", page |-> p]
    /\ Goto("main", "serve_lock")
    /\ UNCHANGED <<tools, call, rootExists, fs, fsOps, queue, registry, sys_modules, routes,
                   nextModule, lock, local, scanTodo, resp>>

\* ListLock without the with statement: the list is built without the lock.
ListLockNoAcquire ==
    /\ pc["main"] = "list_lock"
    /\ Goto("main", "list_read")
    /\ UNCHANGED <<tools, call, rootExists, fs, fsOps, queue, registry, sys_modules, routes,
                   nextModule, lock, local, scanTodo, req, resp>>

\* list_pages, line 158: with _registry_lock (acquire)
ListLock ==
    /\ pc["main"] = "list_lock"
    /\ lock = "free"
    /\ lock' = "main"
    /\ Goto("main", "list_read")
    /\ UNCHANGED <<tools, call, rootExists, fs, fsOps, queue, registry, sys_modules, routes,
                   nextModule, local, scanTodo, req, resp>>

\* list_pages, lines 159-163
ListRead ==
    /\ pc["main"] = "list_read"
    /\ resp' = [kind |-> "list", status |-> 200, pages |-> ListPages(registry)]
    /\ lock' = "free"
    /\ Goto("main", "respond")
    /\ UNCHANGED <<tools, call, rootExists, fs, fsOps, queue, registry, sys_modules, routes,
                   nextModule, local, scanTodo, req>>

\* serve_page, line 169: with _registry_lock (acquire)
ServeLock ==
    /\ pc["main"] = "serve_lock"
    /\ lock = "free"
    /\ lock' = "main"
    /\ Goto("main", "serve_check")
    /\ UNCHANGED <<tools, call, rootExists, fs, fsOps, queue, registry, sys_modules, routes,
                   nextModule, local, scanTodo, req, resp>>

\* ServeCheck with the test inverted: a known name is answered 404.
ServeCheckInverted ==
    /\ pc["main"] = "serve_check"
    /\ lock' = "free"
    /\ IF ~DictHas(registry, req.page)
       THEN Goto("main", "serve_file") /\ UNCHANGED resp
       ELSE Goto("main", "respond") /\ resp' = NotFound(req.page)
    /\ UNCHANGED <<tools, call, rootExists, fs, fsOps, queue, registry, sys_modules, routes,
                   nextModule, local, scanTodo, req>>

\* serve_page, lines 170-172: known = page_name in _registry; the lock is
\* released; an unknown name is answered 404.
ServeCheck ==
    /\ pc["main"] = "serve_check"
    /\ lock' = "free"
    /\ IF DictHas(registry, req.page)
       THEN Goto("main", "serve_file") /\ UNCHANGED resp
       ELSE Goto("main", "respond") /\ resp' = NotFound(req.page)
    /\ UNCHANGED <<tools, call, rootExists, fs, fsOps, queue, registry, sys_modules, routes,
                   nextModule, local, scanTodo, req>>

\* serve_page, lines 173-174: FileResponse(index) reads the file when the
\* response is sent; a missing file is a RuntimeError, answered 500.
ServeFile ==
    /\ pc["main"] = "serve_file"
    /\ resp' = IF IndexIsFile(req.page)
               THEN [kind |-> "page", page |-> req.page, status |-> 200,
                     body |-> IndexPath(req.page)]
               ELSE [kind |-> "page", page |-> req.page, status |-> 500,
                     body |-> "Internal Server Error"]
    /\ Goto("main", "respond")
    /\ UNCHANGED <<tools, call, rootExists, fs, fsOps, queue, registry, sys_modules, routes,
                   nextModule, lock, local, scanTodo, req>>

\* The answer to a request under /{p}/api/ for the operation a valid
\* backend defines: the application's router calls the first matching
\* route's endpoint, a function of the module object that was mounted; no
\* match is a 404.
ApiResponse(rs, p) ==
    LET i == MatchRoute(rs, p)
    IN IF i = 0
       THEN [kind |-> "api", page |-> p, status |-> 404, module |-> 0]
       ELSE [kind |-> "api", page |-> p, status |-> 200, module |-> rs[i].module]

\* A request under /{page}/api/ arrives and is dispatched.
ApiRequest ==
    /\ pc["main"] = "serving"
    /\ \E p \in Names :
          /\ req' = [kind |-> "api", page |-> p]
          /\ resp' = ApiResponse(routes, p)
    /\ Goto("main", "respond")
    /\ UNCHANGED <<tools, call, rootExists, fs, fsOps, queue, registry, sys_modules, routes,
                   nextModule, lock, local, scanTodo>>

\* The response has been sent; the event loop serves the next request.
Respond ==
    /\ pc["main"] = "respond"
    /\ req' = NoReq
    /\ resp' = NoResp
    /\ Goto("main", "serving")
    /\ UNCHANGED <<tools, call, rootExists, fs, fsOps, queue, registry, sys_modules, routes,
                   nextModule, lock, local, scanTodo>>


(* --------------------------- the environment -------------------------- *)

\* The emitter queues the events of every change made while the observer
\* runs; changes made before that are seen by nobody.  Creating or deleting
\* a file is reported for the file and, as a modification, for the
\* directory that holds it.  (The modification of the root itself that
\* goes with a change of its entries is an event of OtherChange.)
Emit(evts) == queue' = IF ObserverRunning THEN queue \o evts ELSE queue

CanChange == rootExists /\ fsOps < MaxFsOps /\ pc["main"] # "failed"

EnvFrame == UNCHANGED <<tools, call, rootExists, registry, sys_modules, routes, nextModule,
                        lock, pc, local, scanTodo, req, resp>>

\* A directory is moved or copied into the root, with or without its document.
PutBundle ==
    /\ CanChange
    /\ \E n \in Names, idx \in BOOLEAN :
          /\ fs[n].kind = "absent"
          /\ fs' = [fs EXCEPT ![n] = Bundle(idx, "none")]
          /\ Emit(<<Event("created", PageDir(n))>>
                  \o IF idx THEN <<Event("created", IndexPath(n))>> ELSE <<>>)
    /\ fsOps' = fsOps + 1
    /\ EnvFrame

\* A plain file is created directly under the root.
PutFile ==
    /\ CanChange
    /\ \E n \in Names :
          /\ fs[n].kind = "absent"
          /\ fs' = [fs EXCEPT ![n] = PlainFile]
          /\ Emit(<<Event("created", PageDir(n))>>)
    /\ fsOps' = fsOps + 1
    /\ EnvFrame

\* index.html is written in a bundle (created, or rewritten).
WriteIndex ==
    /\ CanChange
    /\ \E n \in Names :
          /\ fs[n].kind = "dir"
          /\ fs' = [fs EXCEPT ![n].index = TRUE]
          /\ Emit(IF fs[n].index
                  THEN <<Event("modified", IndexPath(n))>>
                  ELSE <<Event("created", IndexPath(n)), Event("modified", PageDir(n))>>)
    /\ fsOps' = fsOps + 1
    /\ EnvFrame

\* backend.py is written in a bundle with new content.
WriteBackend ==
    /\ CanChange
    /\ \E n \in Names, c \in BackendContents :
          /\ fs[n].kind = "dir"
          /\ fs[n].backend # c
          /\ fs' = [fs EXCEPT ![n].backend = c]
          /\ Emit(IF fs[n].backend # "none"
                  THEN <<Event("modified", BackendPath(n))>>
                  ELSE <<Event("created", BackendPath(n)), Event("modified", PageDir(n))>>)
    /\ fsOps' = fsOps + 1
    /\ EnvFrame

\* index.html is deleted from a bundle.
RemoveIndex ==
    /\ CanChange
    /\ \E n \in Names :
          /\ fs[n].kind = "dir"
          /\ fs[n].index
          /\ fs' = [fs EXCEPT ![n].index = FALSE]
          /\ Emit(<<Event("deleted", IndexPath(n)), Event("modified", PageDir(n))>>)
    /\ fsOps' = fsOps + 1
    /\ EnvFrame

\* backend.py is deleted from a bundle.
RemoveBackend ==
    /\ CanChange
    /\ \E n \in Names :
          /\ fs[n].kind = "dir"
          /\ fs[n].backend # "none"
          /\ fs' = [fs EXCEPT ![n].backend = "none"]
          /\ Emit(<<Event("deleted", BackendPath(n)), Event("modified", PageDir(n))>>)
    /\ fsOps' = fsOps + 1
    /\ EnvFrame

\* An entry of the root (a bundle with all it holds, or a file) is removed.
RemoveEntry ==
    /\ CanChange
    /\ \E n \in Names :
          /\ fs[n].kind # "absent"
          /\ fs' = [fs EXCEPT ![n] = Absent]
          /\ Emit(<<Event("deleted", PageDir(n))>>)
    /\ fsOps' = fsOps + 1
    /\ EnvFrame

\* Changes that touch no bundle's two files: inside a bundle's
\* subdirectory, of the root itself, or outside the root.
OtherPaths == {PAGES_DIR, <<"tmp", "x">>} \cup {PageDir(n) \o <<"assets", "x">> : n \in Names}

OtherChange ==
    /\ CanChange
    /\ ObserverRunning
    /\ \E k \in {"created", "modified", "deleted"}, p \in OtherPaths :
          /\ Len(p) = 4 => fs[p[2]].kind = "dir"
          /\ Emit(<<Event(k, p)>>)
    /\ fsOps' = fsOps + 1
    /\ UNCHANGED fs
    /\ EnvFrame

(* ------------------------------ the system ---------------------------- *)

Next ==
    \/ \E t \in Threads : LoadIndex(t)
    \/ \E t \in Threads : LoadBackend(t)
    \/ \E t \in Threads : LoadExec(t)
    \/ \E t \in Threads : LoadLock(t)
    \/ \E t \in Threads : LoadCommit(t)
    \/ \E t \in Threads : UnloadLock(t)
    \/ \E t \in Threads : UnloadPop(t)
    \/ \E t \in Threads : UnloadModule(t)
    \/ ScanStart
    \/ ScanLoop
    \/ StartWatcher
    \/ OnCreated
    \/ OnModified
    \/ OnDeleted
    \/ ListRequest
    \/ PageRequest
    \/ ListLock
    \/ ListRead
    \/ ServeLock
    \/ ServeCheck
    \/ ServeFile
    \/ ApiRequest
    \/ Respond
    \/ PutBundle
    \/ PutFile
    \/ WriteIndex
    \/ WriteBackend
    \/ RemoveIndex
    \/ RemoveBackend
    \/ RemoveEntry
    \/ OtherChange

Spec == Init /\ [][Next]_vars


(* ------------------------- fair scheduling ---------------------------- *)

\* The statements inside the with blocks: once a thread holds the lock it
\* executes them and releases the lock.
Release(t) ==
    \/ LoadCommit(t)
    \/ UnloadPop(t)
    \/ t = "main" /\ (ListRead \/ ServeCheck)

\* The lock acquisitions.
Acquire(t) ==
    \/ LoadLock(t)
    \/ UnloadLock(t)
    \/ t = "main" /\ (ListLock \/ ServeLock)

\* The service started on a root that holds one bundle, with its document
\* and a valid handler file.
FairInit ==
    /\ Init
    /\ rootExists
    /\ fs = [n \in Names |-> IF n = "a" THEN Bundle(TRUE, "valid") ELSE Absent]

\* The service under fair scheduling of the lock: a thread inside a with
\* block goes on, and a thread that waits for the lock gets it if the
\* lock is free again and again.  Nothing is assumed of the code outside
\* the with blocks, which may take any time or hang.
FairSpec ==
    /\ FairInit
    /\ [][Next]_vars
    /\ \A t \in Threads : WF_vars(Release(t)) /\ SF_vars(Acquire(t))

(* ------------------- the operations run to completion ----------------- *)

\* The process state the Loader and the Unloader work on.
Memory == [registry |-> registry, sys_modules |-> sys_modules,
           routes |-> routes, nextModule |-> nextModule]

\* _load_page(PAGES_DIR / name), lines 37-73, run without interruption on
\* the filesystem as it is.
LoaderRun(name, m) ==
    IF ~IndexIsFile(name) THEN m
    ELSE LET hasFile == BackendIsFile(name)
             outcome == LoadOutcome(fs[name].backend)
             m1 == IF hasFile
                   THEN [m EXCEPT !.sys_modules = ModulesSet(@, ModKey(name), m.nextModule),
                                  !.nextModule = @ + 1,
                                  !.routes = IF outcome = "mounted"
                                             THEN IncludeRouter(@, name, m.nextModule)
                                             ELSE @]
                   ELSE m
             has_backend == hasFile /\ outcome = "mounted"
         IN [m1 EXCEPT !.registry = DictSet(@, name, [has_backend |-> has_backend])]

\* _unload_page(name), lines 76-88, run without interruption.
UnloaderRun(name, m) ==
    [m EXCEPT !.registry = DictPop(@, name),
              !.sys_modules = ModulesPop(@, ModKey(name))]

SetMemory(m) ==
    /\ registry' = m.registry
    /\ sys_modules' = m.sys_modules
    /\ routes' = m.routes
    /\ nextModule' = m.nextModule

\* One uninterrupted call of _load_page on an existing directory.
SeqLoad ==
    /\ nextModule <= MaxModules
    /\ \E n \in Names : IsDir(n) /\ SetMemory(LoaderRun(n, Memory))
    /\ UNCHANGED <<tools, call, rootExists, fs, fsOps, queue, lock, pc, local, scanTodo, req, resp>>

\* One uninterrupted call of _unload_page.
SeqUnload ==
    /\ \E n \in Names : SetMemory(UnloaderRun(n, Memory))
    /\ UNCHANGED <<tools, call, rootExists, fs, fsOps, queue, lock, pc, local, scanTodo, req, resp>>

SeqNext ==
    \/ SeqLoad
    \/ SeqUnload
    \/ PutBundle
    \/ PutFile
    \/ WriteIndex
    \/ WriteBackend
    \/ RemoveIndex
    \/ RemoveBackend
    \/ RemoveEntry

\* The Loader and the Unloader called one after the other, in any order,
\* on a filesystem that changes between the calls.
SeqSpec == Init /\ [][SeqNext]_vars


(* ============================= properties ============================= *)

HasBackend(reg, n) == DictHas(reg, n) /\ DictGet(reg, n).has_backend
Mounted(rs, n) == \E i \in DOMAIN rs : rs[i].prefix = ApiPrefix(n)

\* The event-loop thread takes a step.
MainStep == pc'["main"] # pc["main"]

\* C1: GET /P for a name P that is not in the registry when serve_page
\* tests it is answered 404 {"detail": "Page not found"}, and no step of a
\* document request changes the registry, the module table or the routes.
C1_UnknownPageNotFound ==
    [][ /\ (pc["main"] = "serve_check" /\ MainStep /\ ~DictHas(registry, req.page))
           => /\ pc'["main"] = "respond"
              /\ resp'.kind = "page"
              /\ resp'.page = req.page
              /\ resp'.status = 404
              /\ resp'.body = "Page not found"
        /\ (MainStep /\ (req.kind = "page" \/ req'.kind = "page"))
           => UNCHANGED <<registry, sys_modules, routes>>
      ]_vars

\* A bundle that is on disk with its document, but not registered, has
\* just been answered 404.
C1_Witness ==
    /\ pc["main"] = "respond"
    /\ resp.kind = "page"
    /\ resp.status = 404
    /\ IndexIsFile(resp.page)
    /\ ~DictHas(registry, resp.page)

\* C2: the has_backend value the Loader commits for a page is true exactly
\* when the handler file existed, its body ran without raising, it exposes
\* a router and mounting the router succeeded; without a handler file it
\* is false.
C2_HasBackendIffMounted ==
    [][ \A t \in Threads :
          (pc[t] = "load_commit" /\ pc'[t] # "load_commit")
          => LET n == local[t].name
                 c == local[t].content
             IN /\ DictHas(registry', n)
                /\ DictGet(registry', n).has_backend
                   <=> /\ c # "none"
                       /\ ~BodyRaises(c)
                       /\ ExposesRouter(c)
                       /\ RouterMountable(c)
      ]_vars

\* One page is registered with its valid backend, another without a
\* handler file.
C2_Witness ==
    \E n, m \in Names :
       /\ HasBackend(registry, n) /\ IsDir(n) /\ fs[n].backend = "valid"
       /\ DictHas(registry, m) /\ ~HasBackend(registry, m)
       /\ IndexIsFile(m) /\ fs[m].backend = "none"

\* C3: whenever the registry says has_backend = true for P, a mount with
\* prefix /P/api is in the route table, the module table holds a module
\* for P, and a request for the known sub-path under /P/api is not
\* answered 404.
C3_BackendImpliesMount ==
    \A n \in Names :
       HasBackend(registry, n)
       => /\ Mounted(routes, n)
          /\ ModKey(n) \in DOMAIN sys_modules
          /\ ApiResponse(routes, n).status # 404

\* A page registered with a backend has just answered a request under its
\* API prefix.
C3_Witness ==
    /\ pc["main"] = "respond"
    /\ resp.kind = "api"
    /\ resp.status = 200
    /\ HasBackend(registry, resp.page)


\* C4: the Loader is idempotent on the registry: from every state, and for
\* every bundle, running it twice on the unchanged bundle leaves the
\* registry as running it once does.
C4_LoaderIdempotent ==
    \A n \in Names :
       IsDir(n)
       => LoaderRun(n, LoaderRun(n, Memory)).registry = LoaderRun(n, Memory).registry

\* The Loader has run twice for a page with a valid backend: two mounts,
\* the second module is the page's module, one registry entry.
C4_Witness ==
    \E n \in Names :
       /\ Len(routes) = 2
       /\ routes[1].prefix = ApiPrefix(n)
       /\ routes[2].prefix = ApiPrefix(n)
       /\ ModKey(n) \in DOMAIN sys_modules
       /\ sys_modules[ModKey(n)] = routes[2].module
       /\ HasBackend(registry, n)
       /\ Len(registry) = 1

\* No queued event names page n.
NoEventFor(n) == \A i \in DOMAIN queue : PageNameFromPath(queue[i].path) # n

\* What loading the bundle as it is on disk gives for has_backend.
DiskHasBackend(n) ==
    /\ IsDir(n)
    /\ fs[n].backend # "none"
    /\ ~BodyRaises(fs[n].backend)
    /\ ExposesRouter(fs[n].backend)
    /\ RouterMountable(fs[n].backend)

\* C5: when the watcher has finished a modified event for page P, the
\* bundle still holds its document and was not changed while the event was
\* handled (no event for P is waiting), the registry entry of P is the one
\* the bundle on disk gives: has_backend is true exactly for a handler
\* file that loads and mounts.
C5_ReloadReflectsDisk ==
    [][ LET n == local["watcher"].name
        IN (/\ local["watcher"].event = "modified"
            /\ pc["watcher"] # "idle"
            /\ pc'["watcher"] = "idle"
            /\ IndexIsFile(n)
            /\ NoEventFor(n))
           => /\ DictHas(registry', n)
              /\ DictGet(registry', n).has_backend <=> DiskHasBackend(n)
      ]_vars

\* A page that was mounted in an earlier generation is registered without
\* a backend after its handler file was removed and the event handled.
C5_Witness ==
    \E n \in Names :
       /\ pc["watcher"] = "idle"
       /\ queue = <<>>
       /\ Mounted(routes, n)
       /\ DictHas(registry, n)
       /\ ~HasBackend(registry, n)
       /\ IndexIsFile(n)
       /\ fs[n].backend = "none"

\* The handler file at n fails to load: it raises, exposes no router, or
\* its router cannot be mounted.
HandlerFails(c) == c = "none" \/ BodyRaises(c) \/ ~ExposesRouter(c) \/ ~RouterMountable(c)

C7_ListSortedComplete ==
    [][ (pc["main"] = "list_read" /\ MainStep)
        => LET ps == resp'.pages
           IN /\ resp'.kind = "list"
              /\ resp'.status = 200
              /\ Len(ps) = Len(registry)
              /\ \A i \in DOMAIN registry :
                    \E j \in DOMAIN ps :
                       ps[j] = [name |-> registry[i].name,
                                has_backend |-> registry[i].info.has_backend]
              /\ \A i, j \in DOMAIN ps :
                    i < j => SeqLess(CodePoints(ps[i].name), CodePoints(ps[j].name))
      ]_vars

\* A list has been returned in name order while the registry holds the
\* same two pages in the opposite order.
C7_Witness ==
    /\ pc["main"] = "respond"
    /\ resp.kind = "list"
    /\ Len(resp.pages) = 2
    /\ Len(registry) = 2
    /\ resp.pages[1].name = registry[2].name
    /\ resp.pages[2].name = registry[1].name


\* C8: while the startup hook runs (the scan, then arming the watcher) the
\* observer is not running, no event is queued and no request is handled;
\* once the observer runs or a request is handled, the scan has visited
\* every entry it listed and its last Loader call has returned.
C8_ScanBeforeWatcherAndRequests ==
    /\ pc["main"] \in StartupPcs
       => /\ pc["watcher"] = "off"
          /\ queue = <<>>
          /\ req = NoReq
          /\ resp = NoResp
    /\ (ObserverRunning \/ req # NoReq \/ resp # NoResp)
       => /\ pc["main"] \notin StartupPcs
          /\ scanTodo = <<>>
          /\ local["main"] = NoLocal

\* A request is being handled, the observer runs, and the two bundles that
\* were on disk at startup are registered without any event.
C8_Witness ==
    /\ pc["main"] = "serve_check"
    /\ ObserverRunning
    /\ fsOps = 0
    /\ Len(registry) = 2

\* C9: with the pages root missing at startup, startup still completes,
\* the registry stays empty and GET /__pages__ answers 200 with an empty
\* list.
C9_MissingRootStaysUp ==
    ~rootExists
    => /\ pc["main"] # "failed"
       /\ registry = <<>>
       /\ (resp.kind = "list" => resp.status = 200 /\ resp.pages = <<>>)

\* The Unloader has run for page p, which had been mounted, and no Loader
\* call for p is under way.
Unloaded(p) ==
    /\ Mounted(routes, p)
    /\ ~DictHas(registry, p)
    /\ ModKey(p) \notin DOMAIN sys_modules
    /\ local["watcher"].name # p

\* C10: a request under /P/api/ is answered 404 whenever no backend was
\* ever mounted for P, and whenever one was mounted and P was unloaded
\* since.
C10_UnmountedApiNotFound ==
    [][ \A p \in Names :
          (/\ pc["main"] = "serving"
           /\ req'.kind = "api"
           /\ req'.page = p
           /\ (~Mounted(routes, p) \/ Unloaded(p)))
          => resp'.status = 404
      ]_vars

\* C11: every response to GET /P is 200 with the document of P or 404
\* "Page not found", whatever happens to the bundle or to the registry
\* entry between the membership test and the reading of the file.
C11_PageAnswered200Or404 ==
    resp.kind = "page"
    => \/ resp.status = 404 /\ resp.body = "Page not found"
       \/ resp.status = 200 /\ resp.body = IndexPath(resp.page)

\* The registry r2 holds for page k what r1 holds: the same entry, or none.
SameEntry(r1, r2, k) ==
    /\ DictHas(r1, k) <=> DictHas(r2, k)
    /\ DictHas(r1, k) => DictGet(r1, k) = DictGet(r2, k)

\* The module table s2 holds for page k what s1 holds: the same module
\* object, or none.
SameModule(s1, s2, k) ==
    /\ ModKey(k) \in DOMAIN s1 <=> ModKey(k) \in DOMAIN s2
    /\ ModKey(k) \in DOMAIN s1 => s1[ModKey(k)] = s2[ModKey(k)]

\* The route table r2 is r1, or r1 followed by one mount under /n/api.
AtMostOneMount(r1, r2, n) ==
    \/ r2 = r1
    \/ /\ Len(r2) = Len(r1) + 1
       /\ SubSeq(r2, 1, Len(r1)) = r1
       /\ r2[Len(r2)].prefix = ApiPrefix(n)

\* C12: one run of the Loader for page P, whether it registers P with its
\* backend, registers it document-only or aborts, adds at most one mount,
\* which is under /P/api, and leaves the registry entry and the module
\* table entry of every other page as they were.
C12_LoaderBlastRadius ==
    \A n \in Names :
       LET m == LoaderRun(n, Memory)
       IN /\ AtMostOneMount(routes, m.routes, n)
          /\ \A k \in Names \ {n} :
                /\ SameEntry(registry, m.registry, k)
                /\ SameModule(sys_modules, m.sys_modules, k)

\* The Loader ran for a page with a valid backend and then for a page
\* whose backend raises: the first page keeps its entry, its module and
\* the only mount, the second is registered document-only.
C12_Witness ==
    \E n, k \in Names :
       /\ n # k
       /\ DictKeys(registry) = <<k, n>>
       /\ HasBackend(registry, k)
       /\ ~HasBackend(registry, n)
       /\ IsDir(n) /\ fs[n].backend = "raises"
       /\ sys_modules[ModKey(k)] = 1
       /\ sys_modules[ModKey(n)] = 2
       /\ Len(routes) = 1
       /\ routes[1] = [prefix |-> ApiPrefix(k), module |-> 1]

\* C13: the initial scan passes to the Loader neither a directory whose
\* name begins with "." nor an entry that is not a directory: it goes on
\* to the next entry and nothing is registered, loaded or mounted for the
\* one skipped; as long as no watcher event has been handled (the observer
\* is not running, or nothing was changed under the root) no registry key
\* begins with ".".
C13_ScanSkipsDotAndFiles ==
    [][ /\ (/\ pc["main"] = "scan_loop"
            /\ scanTodo # <<>>
            /\ scanTodo' # scanTodo
            /\ (StartsWithDot(Head(scanTodo)) \/ ~IsDir(Head(scanTodo))))
           => /\ pc'["main"] = "scan_loop"
              /\ UNCHANGED <<registry, sys_modules, routes, local>>
        /\ pc'["main"] \in LoadPcs => ~StartsWithDot(local'["main"].name)
        /\ (pc'["watcher"] = "off" \/ fsOps' = 0)
           => \A i \in DOMAIN registry' : ~StartsWithDot(registry'[i].name)
      ]_vars

\* The scan has finished over a root that holds a dot directory with a
\* document, a plain file and a bundle: only the bundle is registered.
C13_Witness ==
    /\ pc["main"] = "start_watcher"
    /\ \E d, f, n \in Names :
          /\ StartsWithDot(d) /\ IndexIsFile(d)
          /\ fs[f] = PlainFile
          /\ IndexIsFile(n)
          /\ DictKeys(registry) = <<n>>

\* The observer thread is handling a modified event.
Reloading == local["watcher"].event = "modified" /\ pc["watcher"] \notin {"idle", "off"}

\* The observer thread takes the head of the queue, an event of kind k.
Dispatch(k) ==
    /\ pc["watcher"] = "idle"
    /\ queue # <<>>
    /\ Head(queue).kind = k
    /\ queue' = Tail(queue)

\* C14: a modified event for a page P whose directory holds the document
\* starts the Unloader for P, and the Loader for P starts only when the
\* Unloader has returned.  During the reload the registry entry of P
\* changes twice at most, each time in one step under the lock: it is
\* removed, and later a complete new entry is stored, after which the
\* reload is over; between the two P is absent.  A reader reads the
\* registry in one step while it holds the same lock, so it sees the old
\* entry, no entry or the new entry, and never the old one after the
\* removal.
C14_ReloadUnloadsThenLoads ==
    [][ LET P == local["watcher"].name
            w == pc["watcher"]
            en == PageNameFromPath(Head(queue).path)
        IN /\ (Dispatch("modified") /\ en # "" /\ IndexIsFile(en))
              => /\ pc'["watcher"] = "unload_lock"
                 /\ local'["watcher"].name = en
                 /\ local'["watcher"].event = "modified"
                 /\ UNCHANGED <<registry, sys_modules, routes>>
           /\ Reloading
              => /\ (pc'["watcher"] \in LoadPcs /\ w \notin LoadPcs)
                    => /\ w = "unload_module"
                       /\ pc'["watcher"] = "load_index"
                       /\ ~DictHas(registry', P)
                       /\ ModKey(P) \notin DOMAIN sys_modules'
                 /\ w \in LoadPcs => pc'["watcher"] \in LoadPcs \cup {"idle"}
                 /\ w \in LoadPcs \cup {"unload_module"} => ~DictHas(registry, P)
                 /\ ~SameEntry(registry, registry', P)
                    => \/ /\ w = "unload_pop"
                          /\ lock = "watcher"
                          /\ ~DictHas(registry', P)
                       \/ /\ w = "load_commit"
                          /\ lock = "watcher"
                          /\ DictGet(registry', P) = [has_backend |-> local["watcher"].has_backend]
                          /\ pc'["watcher"] = "idle"
           /\ (pc["main"] \in {"list_read", "serve_check"} /\ MainStep)
              => lock = "main" /\ registry' = registry
           /\ registry' # registry
              => \E t \in Threads : lock = t /\ pc[t] \in {"unload_pop", "load_commit"}
      ]_vars

\* A request for the document of P was answered 404 while the watcher,
\* reloading P after its document was rewritten, is between the removal of
\* the old entry and the commit of the new one.
C14_Witness ==
    /\ Reloading
    /\ pc["watcher"] \in LoadPcs
    /\ pc["main"] = "respond"
    /\ resp = NotFound(local["watcher"].name)
    /\ IndexIsFile(local["watcher"].name)
    /\ Mounted(routes, local["watcher"].name)

\* The observer thread is handling an event of kind k.
Handling(k) == local["watcher"].event = k /\ pc["watcher"] \notin {"idle", "off"}

\* C15: a deleted event for a path under page P, handled when nothing
\* exists at <root>/P, runs the Unloader for P and nothing else; when
\* the handler returns P is in neither the registry nor the module table.
\* Handled when <root>/P exists, it leaves the registry, the module table
\* and the routes as they are.
C15_DeletedUnloadsIfGone ==
    [][ LET P == local["watcher"].name
            en == PageNameFromPath(Head(queue).path)
        IN /\ (Dispatch("deleted") /\ en # "" /\ ~Exists(en))
              => /\ pc'["watcher"] = "unload_lock"
                 /\ local'["watcher"].name = en
                 /\ local'["watcher"].event = "deleted"
           /\ (Dispatch("deleted") /\ en # "" /\ Exists(en))
              => /\ pc'["watcher"] = "idle"
                 /\ UNCHANGED <<registry, sys_modules, routes>>
           /\ Handling("deleted")
              => /\ pc'["watcher"] \in UnloadPcs \cup {"idle"}
                 /\ UNCHANGED routes
                 /\ pc'["watcher"] = "idle"
                    => /\ pc["watcher"] = "unload_module"
                       /\ ~DictHas(registry', P)
                       /\ ModKey(P) \notin DOMAIN sys_modules'
      ]_vars

\* The directory of a page that was registered with its backend has been
\* removed and the event handled: the page is in neither table, its mount
\* is still there, and the other page is still registered.
C15_Witness ==
    /\ pc["watcher"] = "idle"
    /\ queue = <<>>
    /\ \E p, q \in Names :
          /\ fs[p] = Absent
          /\ Mounted(routes, p)
          /\ ~DictHas(registry, p)
          /\ ModKey(p) \notin DOMAIN sys_modules
          /\ HasBackend(registry, q)

\* The path is not a first-level child of the pages root or one of the
\* two tracked files of a bundle: it is outside the root, the root itself,
\* or deeper inside a bundle.
NotTracked(p) ==
    /\ \A n \in Names : p \notin {PageDir(n), IndexPath(n), BackendPath(n)}
    /\ p \in OtherPaths

\* C16: an event of any kind whose path is outside the pages root, is the
\* root itself or lies deeper inside a bundle than its two files starts
\* neither the Loader nor the Unloader and leaves the registry, the module
\* table and the routes unchanged.
C16_UntrackedEventsIgnored ==
    [][ \A k \in {"created", "modified", "deleted"} :
          (Dispatch(k) /\ NotTracked(Head(queue).path))
          => /\ pc'["watcher"] = "idle"
             /\ UNCHANGED <<registry, sys_modules, routes, local>>
      ]_vars

\* C17: a created event whose path has a first component under the root
\* that is a directory when the event is handled starts the Loader for
\* that directory; until the handler returns the Loader is not started a
\* second time and the Unloader is not run, so no entry is removed.  When
\* the first component is missing or is not a directory the handler
\* returns at once and the registry, the module table and the routes are
\* unchanged.
C17_CreatedLoadsOnce ==
    [][ LET P == local["watcher"].name
            en == PageNameFromPath(Head(queue).path)
        IN /\ (Dispatch("created") /\ en # "" /\ IsDir(en))
              => /\ pc'["watcher"] = "load_index"
                 /\ local'["watcher"].name = en
                 /\ local'["watcher"].event = "created"
                 /\ UNCHANGED <<registry, sys_modules, routes>>
           /\ (Dispatch("created") /\ ~(en # "" /\ IsDir(en)))
              => /\ pc'["watcher"] = "idle"
                 /\ UNCHANGED <<registry, sys_modules, routes, local>>
           /\ Handling("created")
              => /\ pc'["watcher"] \in LoadPcs \cup {"idle"}
                 /\ pc'["watcher"] = "load_index" => pc["watcher"] = "load_index"
                 /\ \A n \in Names : DictHas(registry, n) => DictHas(registry', n)
      ]_vars

\* A backend.py was added to a bundle: the Loader started by the created
\* event has mounted it and is about to commit, while the modified event
\* of the bundle directory waits in the queue.
C17_Witness ==
    /\ Handling("created")
    /\ pc["watcher"] = "load_commit"
    /\ local["watcher"].has_backend
    /\ queue = <<Event("modified", PageDir(local["watcher"].name))>>

\* C18: the Unloader run for a name that is not in the registry leaves
\* the registry as it is, and from every state running it twice for a
\* name gives the registry and the module table that running it once
\* gives.
C18_UnloaderIdempotent ==
    \A n \in Names :
       LET once == UnloaderRun(n, Memory)
           twice == UnloaderRun(n, once)
       IN /\ ~DictHas(registry, n) => once.registry = registry
          /\ twice.registry = once.registry
          /\ twice.sys_modules = once.sys_modules

\* A page that had been loaded with its backend has been unloaded, so the
\* next Unloader for it finds neither entry, while another page is still
\* registered with its module.
C18_Witness ==
    \E n, k \in Names :
       /\ Mounted(routes, n)
       /\ ~DictHas(registry, n)
       /\ ModKey(n) \notin DOMAIN sys_modules
       /\ DictHas(registry, k)
       /\ ModKey(k) \in DOMAIN sys_modules

\* Thread t arrives at position l of the code.
Arrives(t, l) == pc'[t] = l /\ pc[t] # l

\* C19: a Loader run that finds no document at its first test returns to
\* its caller and changes neither the registry (no entry added, none
\* removed), nor the module table, nor the routes, and creates no module.
\* The rest of the Loader is entered only from that test with the
\* document found, and an entry is added or replaced only by the commit
\* of a Loader run for that name.
C19_NoDocumentNoEntry ==
    [][ /\ \A t \in Threads :
              LET n == local[t].name
              IN /\ (pc[t] = "load_index" /\ pc'[t] # "load_index" /\ ~IndexIsFile(n))
                    => /\ pc'[t] = ReturnPc(t)
                       /\ UNCHANGED <<registry, sys_modules, routes, nextModule>>
                 /\ Arrives(t, "load_backend")
                    => pc[t] = "load_index" /\ IndexIsFile(n) /\ local'[t].name = n
                 /\ Arrives(t, "load_exec")
                    => pc[t] = "load_backend" /\ local'[t].name = n
                 /\ Arrives(t, "load_lock")
                    => pc[t] \in {"load_backend", "load_exec"} /\ local'[t].name = n
                 /\ Arrives(t, "load_commit")
                    => pc[t] = "load_lock" /\ local'[t].name = n
        /\ \A k \in Names :
              (DictHas(registry', k) /\ ~SameEntry(registry, registry', k))
              => \E t \in Threads : pc[t] = "load_commit" /\ local[t].name = k
      ]_vars

\* The scan has finished; a bundle that was on disk with a handler file
\* lost its document before the Loader looked at it: it is not registered,
\* its handler was not executed or mounted, and the other bundle is
\* registered.
C19_Witness ==
    /\ pc["main"] = "start_watcher"
    /\ \E n, k \in Names :
          /\ fs[n] = Bundle(FALSE, "valid")
          /\ ~StartsWithDot(n)
          /\ ~DictHas(registry, n)
          /\ ModKey(n) \notin DOMAIN sys_modules
          /\ ~Mounted(routes, n)
          /\ DictHas(registry, k)

\* The module objects a process state refers to: those in the module
\* table and those whose operations are mounted.
LiveModules(m) ==
    {m.sys_modules[k] : k \in DOMAIN m.sys_modules} \cup {m.routes[i].module : i \in DOMAIN m.routes}

\* C20: from every state, after the Unloader has run for P the registry
\* has no entry and the module table no module for P, the routes are the
\* same, and every other page has the registry entry and the module it
\* had; a Loader run that follows and loads a handler file stores for P
\* a module object that existed nowhere before.  The Loader, the only
\* other operation on the routes, keeps every mount that is there.
C20_UnloaderEffectAndFrame ==
    \A n \in Names :
       LET u == UnloaderRun(n, Memory)
           l == LoaderRun(n, u)
       IN /\ ~DictHas(u.registry, n)
          /\ ModKey(n) \notin DOMAIN u.sys_modules
          /\ u.routes = routes
          /\ \A k \in Names \ {n} :
                /\ SameEntry(registry, u.registry, k)
                /\ SameModule(sys_modules, u.sys_modules, k)
          /\ ModKey(n) \in DOMAIN l.sys_modules
             => l.sys_modules[ModKey(n)] \notin LiveModules(Memory)
          /\ SubSeq(LoaderRun(n, Memory).routes, 1, Len(routes)) = routes

\* A page was loaded twice with its backend and then unloaded: both
\* mounts are still in the route table, the registry and the module table
\* hold nothing for it.
C20_Witness ==
    \E n \in Names :
       /\ Len(routes) = 2
       /\ routes[1] = [prefix |-> ApiPrefix(n), module |-> 1]
       /\ routes[2] = [prefix |-> ApiPrefix(n), module |-> 2]
       /\ ~DictHas(registry, n)
       /\ ModKey(n) \notin DOMAIN sys_modules
       /\ IsDir(n)

\* C21: once a page P has been reloaded, a request under /P/api that
\* matches a route is answered by an operation of the module instance the
\* latest load of P stored in the module table, never by one of an
\* earlier instance.
C21_NewestGenerationAnswers ==
    [][ \A p \in Names :
          (/\ pc["main"] = "serving"
           /\ req'.kind = "api"
           /\ req'.page = p
           /\ resp'.status = 200
           /\ HasBackend(registry, p)
           /\ local["watcher"].name # p)
          => resp'.module = sys_modules[ModKey(p)]
      ]_vars

\* An earlier load of page n stored a module: it is still in the module
\* table, or its operations are mounted.  (The Loader has one key for n.)
EarlierGeneration(n) == ModKey(n) \in DOMAIN sys_modules \/ Mounted(routes, n)

\* Thread t leaves position l of the code.
Leaves(t, l) == pc[t] = l /\ pc'[t] # l

\* C22, as claimed: the key under which the Loader stores a module is the
\* key of no other page and was the key of no earlier load of the same
\* page.
C22_KeyNeverReused ==
    [][ \A t \in Threads :
          LET n == local[t].name
          IN Leaves(t, "load_exec")
             => /\ \A k \in Names \ {n} : ModKey(k) # ModKey(n)
                /\ ~EarlierGeneration(n)
      ]_vars

\* C22, amended: the key is the key of no other page and is the same for
\* every load of one page; a Loader run that finds a handler file stores
\* under it a module object that existed nowhere before, replaces what
\* the key held, leaves the other keys alone and mounts operations of the
\* new object only; the Unloader removes that same key.
C22_KeyPerPageModuleFresh ==
    [][ \A t \in Threads :
          LET n == local[t].name
              key == ModKey(n)
          IN /\ Leaves(t, "load_exec")
                => /\ \A k \in Names \ {n} : ModKey(k) # key
                   /\ DOMAIN sys_modules' = DOMAIN sys_modules \cup {key}
                   /\ \A k \in DOMAIN sys_modules \ {key} : sys_modules'[k] = sys_modules[k]
                   /\ sys_modules'[key] \notin LiveModules(Memory)
                   /\ routes' # routes
                      => routes'[Len(routes')].module = sys_modules'[key]
             /\ Leaves(t, "unload_module")
                => sys_modules' = ModulesPop(sys_modules, key)
      ]_vars

\* A page was reloaded: the operations of its first module object are
\* mounted, and the page's key now holds the second one.
C22_Witness ==
    \E n \in Names :
       /\ routes # <<>>
       /\ routes[1] = [prefix |-> ApiPrefix(n), module |-> 1]
       /\ ModKey(n) \in DOMAIN sys_modules
       /\ sys_modules[ModKey(n)] = 2

\* The positions whose statement reads or writes _registry: the assignment
\* in the Loader, the pop in the Unloader, the iteration in list_pages and
\* the membership test in serve_page.
RegistryPcs == {"load_commit", "unload_pop", "list_read", "serve_check"}

\* The positions at which a thread reads the filesystem, executes or
\* mounts a module, or sends a response.
IoPcs == {"scan_start", "scan_loop", "load_index", "load_backend", "load_exec",
          "unload_module", "start_watcher", "serve_file", "respond"}

\* A thread holds the lock exactly while it is at a statement on the
\* registry.
LockHeldAtRegistryOnly == \A t \in Threads : lock = t <=> pc[t] \in RegistryPcs

\* C23: a thread holds the registry lock exactly while it is at one of the
\* four statements that read or write the registry, so every such read
\* and write is made under the lock, by one thread at a time, and the lock
\* is held at no position where files are read, a module is executed or
\* mounted, or a response is sent; the registry changes only in a step of
\* the thread that holds the lock.  While the watcher loads a page
\* outside its commit, the lock is not the watcher's and a request handler
\* waiting for it can take it.
C23_LockDiscipline ==
    [][ /\ LockHeldAtRegistryOnly
        /\ LockHeldAtRegistryOnly'
        /\ \A t \in Threads : pc[t] \in IoPcs => lock # t
        /\ registry' # registry
           => \E t \in Threads :
                 /\ lock = t
                 /\ Leaves(t, "load_commit") \/ Leaves(t, "unload_pop")
        /\ (Leaves("main", "list_read") \/ Leaves("main", "serve_check"))
           => lock = "main" /\ lock' = "free"
        /\ (pc["watcher"] \in {"load_index", "load_backend", "load_exec"}
            /\ pc["main"] \in {"list_lock", "serve_lock"})
           => lock = "free"
      ]_vars

\* A request handler reads the registry under the lock while the watcher,
\* in the middle of executing a page's handler file, holds nothing.
C23_Witness ==
    /\ pc["watcher"] = "load_exec"
    /\ pc["main"] = "list_read"
    /\ lock = "main"

\* C24: whatever a watcher reaction writes and a request handler reads
\* (the registry, the module table, the route table) is written by the
\* watcher only while it holds the registry lock, and read by the request
\* handler only while it holds the lock, so a request never reads the
\* route table at a moment when the watcher is mounting a router.
C24_SharedStateUnderLock ==
    [][ /\ (/\ pc["watcher"] \notin {"idle", "off"}
            /\ pc'["watcher"] # pc["watcher"]
            /\ <<registry, sys_modules, routes>>' # <<registry, sys_modules, routes>>)
           => lock = "watcher"
        /\ (pc["main"] = "serving" /\ req'.kind = "api")
           => pc["watcher"] # "load_exec"
      ]_vars

\* Thread t is inside a call of the Loader or of the Unloader.
InLoadOrUnload(t) == pc[t] \in LoadPcs \cup UnloadPcs

\* C25: the two threads are never inside the Loader or the Unloader at
\* the same time.  Events leave the queue only from its head and only
\* when the observer thread has returned from the reaction before; the
\* reaction that starts is the one to that head event; until it returns it
\* keeps working for the same page and no other event is taken; new
\* events are added behind those waiting.
C25_SingleWriter ==
    [][ /\ ~(InLoadOrUnload("main") /\ InLoadOrUnload("watcher"))
        /\ queue' # queue
           => \/ /\ Len(queue') > Len(queue)
                 /\ SubSeq(queue', 1, Len(queue)) = queue
              \/ /\ queue # <<>>
                 /\ queue' = Tail(queue)
                 /\ pc["watcher"] = "idle"
                 /\ \/ pc'["watcher"] = "idle"
                    \/ /\ local'["watcher"].event = Head(queue).kind
                       /\ local'["watcher"].name = PageNameFromPath(Head(queue).path)
        /\ InLoadOrUnload("watcher")
           => \/ pc'["watcher"] = "idle"
              \/ /\ InLoadOrUnload("watcher")'
                 /\ local'["watcher"].name = local["watcher"].name
                 /\ local'["watcher"].event = local["watcher"].event
      ]_vars

\* The watcher is in the middle of its reaction to the first event of a
\* change while the second event of the change waits in the queue.
C25_Witness ==
    /\ InLoadOrUnload("watcher")
    /\ pc["watcher"] = "load_exec"
    /\ local["watcher"].event = "created"
    /\ Len(queue) = 1
    /\ queue[1].kind = "modified"
    /\ PageNameFromPath(queue[1].path) = local["watcher"].name

\* C26: from the moment list_pages has the lock until it has built its
\* list the registry does not change, and the list it returns is the
\* content of the registry in that interval: every key with its
\* has_backend.  The response it has built stays as it is when the
\* registry changes afterwards.
C26_ListIsSnapshot ==
    [][ /\ pc["main"] = "list_read" => registry' = registry
        /\ Leaves("main", "list_read")
           => /\ lock = "main"
              /\ resp'.kind = "list"
              /\ resp'.pages = ListPages(registry)
        /\ (pc["main"] = "respond" /\ pc'["main"] = "respond") => resp' = resp
      ]_vars

\* The list was built while one page was registered; the watcher has
\* committed another page since, and the response that waits to be sent
\* still is the list of the one page.
C26_Witness ==
    /\ pc["main"] = "respond"
    /\ resp.kind = "list"
    /\ pc["watcher"] = "idle"
    /\ \E n \in Names :
          /\ DictHas(registry, n)
          /\ \A i \in DOMAIN resp.pages : resp.pages[i].name # n
          /\ Len(resp.pages) = Len(registry) - 1
          /\ Len(registry) = 2

\* The watcher finishes its work for page n: the step handles the last
\* waiting event, or returns from the reaction to it, and that event is
\* for n.
Settles(n) ==
    /\ n # ""
    /\ queue' = <<>>
    /\ pc'["watcher"] = "idle"
    /\ \/ /\ pc["watcher"] = "idle"
          /\ queue # <<>>
          /\ PageNameFromPath(Head(queue).path) = n
       \/ /\ InLoadOrUnload("watcher")
          /\ queue = <<>>
          /\ local["watcher"].name = n

\* C27: when the watcher has handled every delivered event, the last of
\* them for page P (a name without the reserved marker), the registry
\* holds P exactly if <root>/P is a directory with the document (a page
\* whose document was deleted while its directory remains is no longer
\* listed), and the has_backend of its entry is what a Loader run on the
\* bundle as it is now gives.
C27_ConvergesToDisk ==
    [][ \A n \in Names :
          (Settles(n) /\ ~StartsWithDot(n))
          => /\ DictHas(registry', n) <=> IndexIsFile(n)
             /\ DictHas(registry', n)
                => (DictGet(registry', n).has_backend <=> DiskHasBackend(n))
      ]_vars

\* n is a name under the root that begins with ".".
IsDotName(n) == n \in Names /\ StartsWithDot(n)

\* C28: a created or modified event under a first-level directory whose
\* name begins with "." and which holds the document starts the Loader
\* (created) or the Unloader followed by the Loader (modified) for that
\* name as for any other; the Loader of the watcher goes on past its
\* document test and commits an entry under the dot name; list_pages
\* returns every dot name of the registry and serve_page goes on to send
\* the document of a registered dot name.
C28_WatcherRegistersDotNames ==
    [][ LET en == PageNameFromPath(Head(queue).path)
            n == local["watcher"].name
        IN /\ (Dispatch("created") /\ IsDotName(en) /\ IndexIsFile(en))
              => /\ pc'["watcher"] = "load_index"
                 /\ local'["watcher"].name = en
           /\ (Dispatch("modified") /\ IsDotName(en) /\ IndexIsFile(en))
              => /\ pc'["watcher"] = "unload_lock"
                 /\ local'["watcher"].name = en
                 /\ local'["watcher"].event = "modified"
           /\ (Leaves("watcher", "load_index") /\ IsDotName(n) /\ IndexIsFile(n))
              => pc'["watcher"] = "load_backend"
           /\ (Leaves("watcher", "load_commit") /\ IsDotName(n))
              => DictHas(registry', n)
           /\ Leaves("main", "list_read")
              => \A k \in Names :
                    (IsDotName(k) /\ DictHas(registry, k))
                    => \E i \in DOMAIN resp'.pages : resp'.pages[i].name = k
           /\ (Leaves("main", "serve_check") /\ IsDotName(req.page)
               /\ DictHas(registry, req.page))
              => pc'["main"] = "serve_file"
      ]_vars

\* A dot directory that the scan had passed over was registered by the
\* watcher, and its document has been served.
C28_Witness ==
    /\ pc["main"] = "respond"
    /\ resp.kind = "page"
    /\ resp.status = 200
    /\ StartsWithDot(resp.page)
    /\ DictHas(registry, resp.page)

\* The positions at which a thread waits for the registry lock.
LockPcs == {"load_lock", "unload_lock", "list_lock", "serve_lock"}

\* C29: a thread that asks for the registry lock does not hold it; a
\* thread that holds it releases it; and, under fair scheduling of the
\* lock, every thread that asks for it obtains it.
C29_LockIsObtained ==
    \A t \in Threads :
       /\ [](pc[t] \in LockPcs => lock # t)
       /\ (lock = t) ~> (lock # t)
       /\ (pc[t] \in LockPcs) ~> (lock = t)

\* A request handler waits for the lock while the watcher holds it for
\* its commit.
C29_Witness ==
    /\ pc["main"] \in {"list_lock", "serve_lock"}
    /\ pc["watcher"] = "load_commit"
    /\ lock = "watcher"


(* ----------------------------- REST client ----------------------------- *)

\* The Open WebUI tool talks to Superset over HTTP.  One Tools instance
\* keeps its tokens between calls; `call` is the frame of one
\* _make_request call: where it is, the method it was given, which of its
\* two _ensure_authenticated calls is running (phase), how many times the
\* target request was sent, how many logins each phase posted, how many
\* times it re-authenticated after a 401, the status of the last answer of
\* the target (0: none, the request raised) and what the call returned.

pagesVars == <<rootExists, fs, fsOps, queue, registry, sys_modules, routes,
               nextModule, lock, pc, local, scanTodo, req, resp>>

\* The methods callers pass; "GET" stands for any spelling lower() folds,
\* "patch" for any method _make_request has no branch for.
Methods == {"get", "GET", "post", "put", "delete", "patch"}
Lower(m) == IF m = "GET" THEN "get" ELSE m
Supported == {"get", "post", "put", "delete"}

\* What the server may answer: the statuses the code tells apart (200, 201,
\* 401) and one other.
StatusCodes == {200, 201, 401, 500}

AuthErrors == {"credentials_not_configured", "authentication_failed",
               "no_access_token", "authentication_error"}

\* if self._access_token: / if not self._csrf_token:
Truthy(tok) == tok # "None"

\* _get_csrf_token: the token is replaced only by a 200 answer whose body
\* parses; any exception is swallowed.
GetCsrfToken(csrf, status, raises, got) ==
    IF ~raises /\ status = 200 THEN got ELSE csrf

\* return <error dict> from _make_request.
Return(c, r) == [c EXCEPT !.pc = "done", !.result = r]

\* _ensure_authenticated returned None: the caller goes on, to the first
\* attempt or to the retry.
Authenticated(c) ==
    [c EXCEPT !.pc = IF c.phase = "first" THEN "prepare" ELSE "retry"]

\* A caller invokes _make_request(method, ...).
MakeRequest ==
    /\ call.pc \in {"idle", "done"}
    /\ \E m \in Methods :
         call' = [NoCall EXCEPT !.pc = "ensure_verify", !.method = m,
                                !.phase = "first"]
    /\ UNCHANGED <<tools, pagesVars>>

\* _ensure_authenticated, first half: a token the client holds is tried on
\* /api/v1/dashboard/; only a 200 answer ends the function.
EnsureVerify ==
    /\ call.pc = "ensure_verify"
    /\ IF ~Truthy(tools.access_token)
       THEN call' = [call EXCEPT !.pc = "ensure_login"]
       ELSE \E status \in StatusCodes, raises \in BOOLEAN :
              call' = IF ~raises /\ status = 200
                      THEN Authenticated(call)
                      ELSE [call EXCEPT !.pc = "ensure_login"]
    /\ UNCHANGED <<tools, pagesVars>>

\* One more login posted by the running phase.
CountLogin(c) ==
    IF c.phase = "first" THEN [c EXCEPT !.logins = @ + 1]
    ELSE [c EXCEPT !.relogins = @ + 1]

\* _ensure_authenticated, second half: the login.
EnsureLogin ==
    /\ call.pc = "ensure_login"
    /\ IF ~tools.credentials
       THEN /\ call' = Return(call, "credentials_not_configured")
            /\ UNCHANGED tools
       ELSE \E status \in StatusCodes, raises \in BOOLEAN,
               token \in {"None", "token"} :
              LET c == CountLogin(call) IN
              IF raises
              THEN /\ call' = Return(c, "authentication_error")
                   /\ UNCHANGED tools
              ELSE IF status # 200
              THEN /\ call' = Return(c, "authentication_failed")
                   /\ UNCHANGED tools
              ELSE /\ tools' = [tools EXCEPT !.access_token = token]
                   /\ call' = IF Truthy(token)
                              THEN [c EXCEPT !.pc = "ensure_csrf"]
                              ELSE Return(c, "no_access_token")
    /\ UNCHANGED pagesVars

\* _ensure_authenticated, the end: the CSRF token is fetched and the
\* function returns None whatever came of it.
EnsureCsrf ==
    /\ call.pc = "ensure_csrf"
    /\ \E status \in StatusCodes, raises \in BOOLEAN, got \in {"None", "csrf"} :
         tools' = [tools EXCEPT
                     !.csrf_token = GetCsrfToken(@, status, raises, got)]
    /\ call' = Authenticated(call)
    /\ UNCHANGED pagesVars

\* _make_request after the first authentication: a CSRF token is fetched
\* for a method other than GET when the client holds none.
Prepare ==
    /\ call.pc = "prepare"
    /\ LET include_csrf == Lower(call.method) # "get" IN
       IF include_csrf /\ ~Truthy(tools.csrf_token)
       THEN \E status \in StatusCodes, raises \in BOOLEAN,
               got \in {"None", "csrf"} :
              tools' = [tools EXCEPT
                          !.csrf_token = GetCsrfToken(@, status, raises, got)]
       ELSE UNCHANGED tools
    /\ call' = [call EXCEPT !.pc = "send"]
    /\ UNCHANGED pagesVars

\* The first attempt.  A 401 answer drops the access token and calls
\* _ensure_authenticated again.
Send ==
    /\ call.pc = "send"
    /\ IF Lower(call.method) \notin Supported
       THEN /\ call' = Return(call, "unsupported_method")
            /\ UNCHANGED tools
       ELSE \E status \in StatusCodes, raises \in BOOLEAN :
              LET c == [call EXCEPT !.sent = @ + 1,
                                    !.status = IF raises THEN 0 ELSE status] IN
              IF raises
              THEN /\ call' = Return(c, "request_error")
                   /\ UNCHANGED tools
              ELSE IF status = 401
              THEN /\ tools' = [tools EXCEPT !.access_token = "None"]
                   /\ call' = [c EXCEPT !.pc = "ensure_verify",
                                        !.phase = "reauth",
                                        !.reauths = @ + 1]
              ELSE /\ call' = [c EXCEPT !.pc = "respond"]
                   /\ UNCHANGED tools
    /\ UNCHANGED pagesVars

\* The retry sent again on a 401 answer: what "retry until authorised"
\* would do.
RetryLoops ==
    /\ call.pc = "retry"
    /\ \E status \in StatusCodes, raises \in BOOLEAN :
         LET c == [call EXCEPT !.sent = @ + 1,
                               !.status = IF raises THEN 0 ELSE status] IN
         IF raises
         THEN /\ call' = Return(c, "request_error")
              /\ UNCHANGED tools
         ELSE IF status = 401
         THEN /\ tools' = [tools EXCEPT !.access_token = "None"]
              /\ call' = [c EXCEPT !.pc = "ensure_verify", !.reauths = @ + 1]
         ELSE /\ call' = [c EXCEPT !.pc = "respond"]
              /\ UNCHANGED tools
    /\ UNCHANGED pagesVars

\* The retry: the same request once more, whatever it answers.
Retry ==
    /\ call.pc = "retry"
    /\ \E status \in StatusCodes, raises \in BOOLEAN :
         LET c == [call EXCEPT !.sent = @ + 1,
                               !.status = IF raises THEN 0 ELSE status] IN
         call' = IF raises THEN Return(c, "request_error")
                 ELSE [c EXCEPT !.pc = "respond"]
    /\ UNCHANGED <<tools, pagesVars>>

\* The answer is turned into the call's result: an error dict unless the
\* status is 200 or 201, else the parsed body (parsing may raise).
ReturnResponse ==
    /\ call.pc = "respond"
    /\ IF call.status \notin {200, 201}
       THEN call' = Return(call, "api_request_failed")
       ELSE \E raises \in BOOLEAN :
              call' = Return(call, IF raises THEN "request_error" ELSE "json")
    /\ UNCHANGED <<tools, pagesVars>>

\* The client alone: the service's state stays as constructed.  The
\* credentials are configuration, set or not before the first call.
ClientInit ==
    /\ rootExists = FALSE
    /\ fs = [n \in Names |-> Absent]
    /\ fsOps = 0
    /\ queue = <<>>
    /\ registry = <<>>
    /\ sys_modules = <<>>
    /\ routes = <<>>
    /\ nextModule = 1
    /\ lock = "free"
    /\ pc = [t \in Threads |-> IF t = "main" THEN "scan_start" ELSE "off"]
    /\ local = [t \in Threads |-> NoLocal]
    /\ scanTodo = <<>>
    /\ req = NoReq
    /\ resp = NoResp
    /\ \E c \in BOOLEAN : tools = [NoTools EXCEPT !.credentials = c]
    /\ call = NoCall

ClientNext ==
    \/ MakeRequest
    \/ EnsureVerify
    \/ EnsureLogin
    \/ EnsureCsrf
    \/ Prepare
    \/ Send
    \/ Retry
    \/ ReturnResponse

ClientSpec == ClientInit /\ [][ClientNext]_vars


\* C30: one call of _make_request sends the target request at most twice
\* and re-authenticates at most once after a 401, posting at most one login
\* then; a second attempt is only ever made after one re-authentication;
\* a 401 answer to the retry is returned as the "API request failed" error
\* dict; and when the call returns an authentication error, the target
\* request was not sent at all (the first authentication failed) or was
\* sent exactly once (the re-authentication failed).
C30_BoundedRetry ==
    /\ call.sent <= 2
    /\ call.reauths <= 1
    /\ call.relogins <= call.reauths
    /\ call.sent = 2 => call.reauths = 1 /\ call.relogins = 1
    /\ (call.pc = "done" /\ call.sent = 2 /\ call.status = 401)
          => call.result = "api_request_failed"
    /\ (call.pc = "done" /\ call.result \in AuthErrors)
          => \/ call.phase = "first" /\ call.sent = 0
             \/ call.phase = "reauth" /\ call.sent = 1

\* A call whose first attempt got 401, which logged in again, retried, got
\* 401 again and returned the error.
C30_Witness ==
    /\ call.pc = "done"
    /\ call.sent = 2
    /\ call.reauths = 1
    /\ call.relogins = 1
    /\ call.status = 401
    /\ call.result = "api_request_failed"

====
